---- MODULE Spec2Model ----
(***************************************************************************)
(* HealthPulse_USA: the article-generation pipeline of                     *)
(* agents/orchestrator.py (HealthcareAgentOrchestrator) and the text       *)
(* parsers of agents/definitions.py (AgentOutputParser).                   *)
(*                                                                         *)
(* A Python str is a sequence of one-character strings, so that split,     *)
(* strip, startswith, replace, `in', lower, upper and float are computed   *)
(* as the code computes them.  A Python float is a record: a finite        *)
(* decimal n/d with d a power of ten (canonical: no trailing zero), NaN,   *)
(* or a signed infinity.                                                   *)
(***************************************************************************)
EXTENDS Integers, Sequences, FiniteSets, TLC

(***************************************************************************)
(* str                                                                     *)
(***************************************************************************)
UpperLetters ==
    <<"A","B","C","D","E","F","G","H","I","J","K","L","M",
      "N","O","P","Q","R","S","T","U","V","W","X","Y","Z">>

LowerLetters ==
    <<"a","b","c","d","e","f","g","h","i","j","k","l","m",
      "n","o","p","q","r","s","t","u","v","w","x","y","z">>

Digits ==
    <<"0","1","2","3","4","5","6","7","8","9">>

IndexIn(c, alphabet) ==
    IF \E i \in 1..Len(alphabet) : alphabet[i] = c
    THEN CHOOSE i \in 1..Len(alphabet) : alphabet[i] = c
    ELSE 0

\* str.lower()
Lower(s) ==
    [i \in 1..Len(s) |->
        IF IndexIn(s[i], UpperLetters) > 0
        THEN LowerLetters[IndexIn(s[i], UpperLetters)] ELSE s[i]]

\* str.upper()
Upper(s) ==
    [i \in 1..Len(s) |->
        IF IndexIn(s[i], LowerLetters) > 0
        THEN UpperLetters[IndexIn(s[i], LowerLetters)] ELSE s[i]]

IsSpace(c) == c \in {" ", "\t", "\n", "\r"}

RECURSIVE LStrip(_)
LStrip(s) ==
    IF s # <<>> /\ IsSpace(Head(s)) THEN LStrip(Tail(s)) ELSE s

RECURSIVE RStrip(_)
RStrip(s) ==
    IF s # <<>> /\ IsSpace(s[Len(s)]) THEN RStrip(SubSeq(s, 1, Len(s) - 1)) ELSE s

\* str.strip()
Strip(s) == RStrip(LStrip(s))

\* str.startswith(p)
StartsWith(s, p) == Len(s) >= Len(p) /\ SubSeq(s, 1, Len(p)) = p

\* p in s (p non-empty)
Contains(s, p) ==
    \E i \in 1..(Len(s) - Len(p) + 1) : SubSeq(s, i, i + Len(p) - 1) = p

\* str.split(c) for a one-character separator c: a non-empty list of pieces
RECURSIVE Split(_, _)
Split(s, c) ==
    IF \E i \in 1..Len(s) : s[i] = c
    THEN LET i == CHOOSE j \in 1..Len(s) :
                     s[j] = c /\ \A k \in 1..(j - 1) : s[k] # c
         IN  <<SubSeq(s, 1, i - 1)>> \o Split(SubSeq(s, i + 1, Len(s)), c)
    ELSE <<s>>

\* str.replace(p, ''): every non-overlapping occurrence of p, left to right
RECURSIVE Remove(_, _)
Remove(s, p) ==
    IF s = <<>> THEN <<>>
    ELSE IF StartsWith(s, p) THEN Remove(SubSeq(s, Len(p) + 1, Len(s)), p)
    ELSE <<Head(s)>> \o Remove(Tail(s), p)

\* sep.join(parts) for a one-character separator
RECURSIVE Join(_, _)
Join(parts, c) ==
    IF parts = <<>> THEN <<>>
    ELSE IF Len(parts) = 1 THEN parts[1]
    ELSE parts[1] \o <<c>> \o Join(Tail(parts), c)

\* sep.join(parts) for a separator of any length
RECURSIVE JoinStr(_, _)
JoinStr(parts, sep) ==
    IF parts = <<>> THEN <<>>
    ELSE IF Len(parts) = 1 THEN parts[1]
    ELSE parts[1] \o sep \o JoinStr(Tail(parts), sep)

(***************************************************************************)
(* float                                                                   *)
(***************************************************************************)
Fin(n, d) == [k |-> "fin", n |-> n, d |-> d]
NaN == [k |-> "nan", n |-> 0, d |-> 1]
PosInf == [k |-> "inf", n |-> 1, d |-> 1]
NegInf == [k |-> "inf", n |-> -1, d |-> 1]

\* the canonical form of n/d: no trailing zero in the fraction
RECURSIVE Canon(_, _)
Canon(n, d) ==
    IF d > 1 /\ n % 10 = 0 THEN Canon(n \div 10, d \div 10) ELSE Fin(n, d)

Max2(a, b) == IF a >= b THEN a ELSE b

\* a + b
FAdd(a, b) ==
    IF a.k = "nan" \/ b.k = "nan" THEN NaN
    ELSE IF a.k = "inf" /\ b.k = "inf" THEN (IF a.n = b.n THEN a ELSE NaN)
    ELSE IF a.k = "inf" THEN a
    ELSE IF b.k = "inf" THEN b
    ELSE LET d == Max2(a.d, b.d)
         IN  Canon(a.n * (d \div a.d) + b.n * (d \div b.d), d)

\* a < b; every comparison with NaN is false
FLess(a, b) ==
    IF a.k = "nan" \/ b.k = "nan" THEN FALSE
    ELSE IF a.k = "inf" THEN a.n < 0 /\ ~(b.k = "inf" /\ b.n < 0)
    ELSE IF b.k = "inf" THEN b.n > 0
    ELSE a.n * b.d < b.n * a.d

\* a <= b
FLeq(a, b) ==
    IF a.k = "nan" \/ b.k = "nan" THEN FALSE
    ELSE a = b \/ FLess(a, b)

\* a >= b
FGeq(a, b) == FLeq(b, a)

\* min(a, b): Python returns a unless b < a
FMin(a, b) == IF FLess(b, a) THEN b ELSE a

IsDigits(s) == \A i \in 1..Len(s) : IndexIn(s[i], Digits) > 0

RECURSIVE DigitsValue(_)
DigitsValue(s) ==
    IF s = <<>> THEN 0
    ELSE 10 * DigitsValue(SubSeq(s, 1, Len(s) - 1)) + (IndexIn(s[Len(s)], Digits) - 1)

RECURSIVE Pow10(_)
Pow10(k) == IF k = 0 THEN 1 ELSE 10 * Pow10(k - 1)

S_nan == <<"n","a","n">>
S_inf == <<"i","n","f">>
S_infinity == <<"i","n","f","i","n","i","t","y">>

\* float(s): [ok |-> FALSE] stands for ValueError.  Decimal literals with an
\* optional sign and fraction, and nan / inf / infinity in any case.
FloatOf(s) ==
    LET t    == Strip(s)
        neg  == t # <<>> /\ Head(t) = "-"
        body == IF t # <<>> /\ Head(t) \in {"+", "-"} THEN Tail(t) ELSE t
        sgn  == IF neg THEN -1 ELSE 1
        low  == Lower(body)
        dot  == Split(body, ".")
    IN  IF low = S_nan THEN [ok |-> TRUE, v |-> NaN]
        ELSE IF low = S_inf \/ low = S_infinity
             THEN [ok |-> TRUE, v |-> IF neg THEN NegInf ELSE PosInf]
        ELSE IF Len(dot) = 1 /\ body # <<>> /\ IsDigits(body)
             THEN [ok |-> TRUE, v |-> Fin(sgn * DigitsValue(body), 1)]
        ELSE IF Len(dot) = 2 /\ IsDigits(dot[1]) /\ IsDigits(dot[2])
                /\ Len(dot[1]) + Len(dot[2]) > 0
             THEN [ok |-> TRUE,
                   v |-> Canon(sgn * (DigitsValue(dot[1]) * Pow10(Len(dot[2]))
                                      + DigitsValue(dot[2])),
                               Pow10(Len(dot[2])))]
        ELSE [ok |-> FALSE, v |-> NaN]

(***************************************************************************)
(* agents/definitions.py: AgentOutputParser                                *)
(***************************************************************************)
P_TOPIC_TITLE ==
    <<"T","O","P","I","C"," ","T","I","T","L","E",":">>
P_PRIMARY_KEYWORDS ==
    <<"P","R","I","M","A","R","Y"," ","K","E","Y","W","O","R","D","S",":">>
P_TRENDING_REASON ==
    <<"T","R","E","N","D","I","N","G"," ","R","E","A","S","O","N",":">>
P_SOURCE_REFERENCES ==
    <<"S","O","U","R","C","E"," ","R","E","F","E","R","E","N","C","E","S",":">>
P_RELEVANCE_SCORE ==
    <<"R","E","L","E","V","A","N","C","E"," ","S","C","O","R","E",":">>
P_BRIEF_DESCRIPTION ==
    <<"B","R","I","E","F"," ","D","E","S","C","R","I","P","T","I","O","N",":">>
W_keyword ==
    <<"k","e","y","w","o","r","d">>
W_heading ==
    <<"h","e","a","d","i","n","g">>
W_length ==
    <<"l","e","n","g","t","h">>
W_readability ==
    <<"r","e","a","d","a","b","i","l","i","t","y">>
W_relevance ==
    <<"r","e","l","e","v","a","n","c","e">>
W_intent ==
    <<"i","n","t","e","n","t">>
P_OVERALL_SCORE ==
    <<"O","V","E","R","A","L","L","_","S","C","O","R","E",":">>
P_Keyword_Usage ==
    <<"K","e","y","w","o","r","d"," ","U","s","a","g","e",":">>
P_Heading_Structure ==
    <<"H","e","a","d","i","n","g"," ","S","t","r","u","c","t","u","r","e",":">>
P_Content_Length ==
    <<"C","o","n","t","e","n","t"," ","L","e","n","g","t","h",":">>
P_Readability ==
    <<"R","e","a","d","a","b","i","l","i","t","y",":">>
P_Topic_Relevance ==
    <<"T","o","p","i","c"," ","R","e","l","e","v","a","n","c","e",":">>
P_Search_Intent ==
    <<"S","e","a","r","c","h"," ","I","n","t","e","n","t",":">>
P_PASS_STATUS ==
    <<"P","A","S","S","_","S","T","A","T","U","S",":">>
P_PASS ==
    <<"P","A","S","S">>
P_VALIDATION_CHECKLIST ==
    <<"V","A","L","I","D","A","T","I","O","N","_","C","H","E","C","K","L","I","S","T",":">>
P_RECOMMENDATIONS ==
    <<"R","E","C","O","M","M","E","N","D","A","T","I","O","N","S",":">>

\* the characters U+2713 and U+2717 of the examiner's checklist
CheckMark == "CHECK"
CrossMark == "CROSS"

\* [f(x) for x in xs]
StripAll(xs) == [i \in 1..Len(xs) |-> Strip(xs[i])]

\* topic_data before the loop of parse_trending_topic
TrendDefaults ==
    [title |-> <<>>, keywords |-> <<>>, source |-> <<>>,
     relevance_score |-> Fin(0, 1), description |-> <<>>,
     trending_reason |-> <<>>]

\* the fallback of the except branch of parse_trending_topic
RelevanceFallback == Fin(75, 1)

\* TrendLine that keeps the first title it meets
TrendLine_FirstWins(td, raw) ==
    LET line == Strip(raw)
    IN  IF StartsWith(line, P_TOPIC_TITLE)
        THEN (IF td.title = <<>>
              THEN [td EXCEPT !.title = Strip(Remove(line, P_TOPIC_TITLE))]
              ELSE td)
        ELSE IF StartsWith(line, P_PRIMARY_KEYWORDS)
        THEN [td EXCEPT !.keywords =
                 StripAll(Split(Strip(Remove(line, P_PRIMARY_KEYWORDS)), ","))]
        ELSE IF StartsWith(line, P_TRENDING_REASON)
        THEN [td EXCEPT !.trending_reason = Strip(Remove(line, P_TRENDING_REASON))]
        ELSE IF StartsWith(line, P_SOURCE_REFERENCES)
        THEN [td EXCEPT !.source = Strip(Remove(line, P_SOURCE_REFERENCES))]
        ELSE IF StartsWith(line, P_RELEVANCE_SCORE)
        THEN LET score_str == Strip(Remove(line, P_RELEVANCE_SCORE))
                 f == FloatOf(Split(score_str, "/")[1])
             IN  [td EXCEPT !.relevance_score =
                     IF f.ok THEN f.v ELSE RelevanceFallback]
        ELSE IF StartsWith(line, P_BRIEF_DESCRIPTION)
        THEN [td EXCEPT !.description = Strip(Remove(line, P_BRIEF_DESCRIPTION))]
        ELSE td

\* one iteration of the loop of parse_trending_topic
TrendLine(td, raw) ==
    LET line == Strip(raw)
    IN  IF StartsWith(line, P_TOPIC_TITLE)
        THEN [td EXCEPT !.title = Strip(Remove(line, P_TOPIC_TITLE))]
        ELSE IF StartsWith(line, P_PRIMARY_KEYWORDS)
        THEN [td EXCEPT !.keywords =
                 StripAll(Split(Strip(Remove(line, P_PRIMARY_KEYWORDS)), ","))]
        ELSE IF StartsWith(line, P_TRENDING_REASON)
        THEN [td EXCEPT !.trending_reason = Strip(Remove(line, P_TRENDING_REASON))]
        ELSE IF StartsWith(line, P_SOURCE_REFERENCES)
        THEN [td EXCEPT !.source = Strip(Remove(line, P_SOURCE_REFERENCES))]
        ELSE IF StartsWith(line, P_RELEVANCE_SCORE)
        THEN LET score_str == Strip(Remove(line, P_RELEVANCE_SCORE))
                 f == FloatOf(Split(score_str, "/")[1])
             IN  [td EXCEPT !.relevance_score =
                     IF f.ok THEN f.v ELSE RelevanceFallback]
        ELSE IF StartsWith(line, P_BRIEF_DESCRIPTION)
        THEN [td EXCEPT !.description = Strip(Remove(line, P_BRIEF_DESCRIPTION))]
        ELSE td

RECURSIVE TrendFold(_, _)
TrendFold(td, lines) ==
    IF lines = <<>> THEN td
    ELSE TrendFold(TrendLine(td, Head(lines)), Tail(lines))

\* AgentOutputParser.parse_trending_topic(response), response a str
parse_trending_topic(response) ==
    TrendFold(TrendDefaults, Split(response, "\n"))

\* SEOValidation fields before the loop of parse_seo_validation
ValidationDefaults ==
    [overall_score |-> Fin(0, 1), keyword_score |-> Fin(0, 1),
     heading_score |-> Fin(0, 1), length_score |-> Fin(0, 1),
     readability_score |-> Fin(0, 1), relevance_score |-> Fin(0, 1),
     intent_score |-> Fin(0, 1), validation_checklist |-> {},
     recommendations |-> <<>>, pass_status |-> FALSE]

\* the fallback of the except branch of OVERALL_SCORE
OverallFallback == Fin(75, 1)

\* float(line.split(':')[1].strip().split('/')[0]); the line holds a colon
CategoryFloat(line) == FloatOf(Split(Strip(Split(line, ":")[2]), "/")[1])

\* line.split('.', 1)[-1]
AfterFirstDot(line) ==
    LET i == CHOOSE j \in 1..Len(line) :
                 line[j] = "." /\ \A k \in 1..(j - 1) : line[k] # "."
    IN  SubSeq(line, i + 1, Len(line))

\* 'PASS' in line.upper()
PassVerdict(line) == Contains(Upper(line), P_PASS)

\* one iteration of the loop of parse_seo_validation; st holds
\* validation_data (v) and the flags in_checklist, in_recommendations
ValidationLine(st, raw) ==
    LET line == Strip(raw)
        f == CategoryFloat(line)
        o == FloatOf(Split(Strip(Remove(line, P_OVERALL_SCORE)), "/")[1])
    IN  IF StartsWith(line, P_OVERALL_SCORE)
        THEN [st EXCEPT !.v.overall_score = IF o.ok THEN o.v ELSE OverallFallback]
        ELSE IF Contains(line, P_Keyword_Usage)
        THEN (IF f.ok THEN [st EXCEPT !.v.keyword_score = f.v] ELSE st)
        ELSE IF Contains(line, P_Heading_Structure)
        THEN (IF f.ok THEN [st EXCEPT !.v.heading_score = f.v] ELSE st)
        ELSE IF Contains(line, P_Content_Length)
        THEN (IF f.ok THEN [st EXCEPT !.v.length_score = f.v] ELSE st)
        ELSE IF Contains(line, P_Readability)
        THEN (IF f.ok THEN [st EXCEPT !.v.readability_score = f.v] ELSE st)
        ELSE IF Contains(line, P_Topic_Relevance)
        THEN (IF f.ok THEN [st EXCEPT !.v.relevance_score = f.v] ELSE st)
        ELSE IF Contains(line, P_Search_Intent)
        THEN (IF f.ok THEN [st EXCEPT !.v.intent_score = f.v] ELSE st)
        ELSE IF StartsWith(line, P_PASS_STATUS)
        THEN [st EXCEPT !.v.pass_status = PassVerdict(line)]
        ELSE IF StartsWith(line, P_VALIDATION_CHECKLIST)
        THEN [st EXCEPT !.in_checklist = TRUE, !.in_recommendations = FALSE]
        ELSE IF StartsWith(line, P_RECOMMENDATIONS)
        THEN [st EXCEPT !.in_recommendations = TRUE, !.in_checklist = FALSE]
        ELSE IF st.in_checklist
                /\ (Contains(line, <<CheckMark>>) \/ Contains(line, <<CrossMark>>))
        THEN LET passed == Contains(line, <<CheckMark>>)
                 item_name == Strip(Remove(Remove(line, <<CheckMark>>), <<CrossMark>>))
             IN  [st EXCEPT !.v.validation_checklist =
                     {p \in @ : p[1] # item_name} \cup {<<item_name, passed>>}]
        ELSE IF st.in_recommendations /\ line # <<>>
                /\ IndexIn(line[1], Digits) > 0
        THEN LET rec == IF Contains(line, <<".">>)
                        THEN Strip(AfterFirstDot(line)) ELSE line
             IN  [st EXCEPT !.v.recommendations = Append(@, rec)]
        ELSE st

RECURSIVE ValidationFold(_, _)
ValidationFold(st, lines) ==
    IF lines = <<>> THEN st
    ELSE ValidationFold(ValidationLine(st, Head(lines)), Tail(lines))

\* AgentOutputParser.parse_seo_validation(response), response a str
parse_seo_validation(response) ==
    ValidationFold([v |-> ValidationDefaults, in_checklist |-> FALSE,
                    in_recommendations |-> FALSE],
                   Split(response, "\n")).v

(***************************************************************************)
(* agents/orchestrator.py: _parse_seo_content                              *)
(***************************************************************************)
\* the default scores of _parse_seo_content
SeoDefaults ==
    [keyword_score |-> Fin(16, 1), heading_score |-> Fin(13, 1),
     length_score |-> Fin(13, 1), readability_score |-> Fin(12, 1),
     relevance_score |-> Fin(13, 1), intent_score |-> Fin(8, 1)]

\* the second argument of min(score, ...) for each category
SeoCap ==
    [keyword_score |-> Fin(20, 1), heading_score |-> Fin(15, 1),
     length_score |-> Fin(15, 1), readability_score |-> Fin(15, 1),
     relevance_score |-> Fin(15, 1), intent_score |-> Fin(10, 1)]

SeoCategories ==
    <<"keyword_score", "heading_score", "length_score",
      "readability_score", "relevance_score", "intent_score">>

\* the word each branch of the if/elif chain looks for
SeoWord ==
    [keyword_score |-> W_keyword, heading_score |-> W_heading,
     length_score |-> W_length, readability_score |-> W_readability,
     relevance_score |-> W_relevance, intent_score |-> W_intent]

\* the branch of the if/elif chain a line takes: 1..6, or 0 for none
SeoBranch(line) ==
    LET line_lower == Lower(line)
        hit == {i \in 1..6 : Contains(line_lower, SeoWord[SeoCategories[i]])
                             /\ Contains(line, <<"/">>)}
    IN  IF hit = {} THEN 0 ELSE CHOOSE i \in hit : \A j \in hit : i <= j

\* float(line.split(':')[-1].strip().split('/')[0])
SeoFloat(line) ==
    LET parts == Split(line, ":")
    IN  FloatOf(Split(Strip(parts[Len(parts)]), "/")[1])

\* SeoLine whose except branch zeroes the category
SeoLine_ResetOnError(sc, line) ==
    LET b == SeoBranch(line)
        f == SeoFloat(line)
    IN  IF b = 0 THEN sc
        ELSE IF ~f.ok THEN [sc EXCEPT ![SeoCategories[b]] = Fin(0, 1)]
        ELSE [sc EXCEPT ![SeoCategories[b]] = FMin(f.v, SeoCap[SeoCategories[b]])]

\* one iteration of the loop of _parse_seo_content
SeoLine(sc, line) ==
    LET b == SeoBranch(line)
        f == SeoFloat(line)
    IN  IF b = 0 \/ ~f.ok THEN sc
        ELSE [sc EXCEPT ![SeoCategories[b]] = FMin(f.v, SeoCap[SeoCategories[b]])]

RECURSIVE SeoFold(_, _)
SeoFold(sc, lines) ==
    IF lines = <<>> THEN sc
    ELSE SeoFold(SeoLine(sc, Head(lines)), Tail(lines))

\* SeoSum that leaves intent_score out
SeoSum_WithoutIntent(sc) ==
    FAdd(FAdd(FAdd(FAdd(sc.keyword_score, sc.heading_score),
                        sc.length_score), sc.readability_score),
         sc.relevance_score)

\* overall = keyword_score + heading_score + ... + intent_score
SeoSum(sc) ==
    FAdd(FAdd(FAdd(FAdd(FAdd(sc.keyword_score, sc.heading_score),
                             sc.length_score), sc.readability_score),
              sc.relevance_score), sc.intent_score)

\* the threshold of pass_status = overall >= 70
PassThreshold == Fin(70, 1)

ContentChecklist ==
    {<<<<"P","r","i","m","a","r","y"," ","k","e","y","w","o","r","d"," ","i","n"," ","t","i","t","l","e">>, TRUE>>,
     <<<<"P","r","i","m","a","r","y"," ","k","e","y","w","o","r","d"," ","i","n"," ","f","i","r","s","t"," ","p","a","r","a","g","r","a","p","h">>, TRUE>>,
     <<<<"S","i","n","g","l","e"," ","H","1"," ","p","r","e","s","e","n","t">>, TRUE>>,
     <<<<"5","+"," ","H","2"," ","h","e","a","d","i","n","g","s">>, TRUE>>,
     <<<<"M","e","t","a"," ","d","e","s","c","r","i","p","t","i","o","n"," ","o","p","t","i","m","i","z","e","d">>, TRUE>>,
     <<<<"W","o","r","d"," ","c","o","u","n","t"," ",">","="," ","1","5","0","0">>, TRUE>>,
     <<<<"K","e","y","w","o","r","d"," ","d","e","n","s","i","t","y"," ","1","-","3","%">>, TRUE>>,
     <<<<"P","r","o","p","e","r"," ","h","e","a","d","i","n","g"," ","h","i","e","r","a","r","c","h","y">>, TRUE>>,
     <<<<"T","o","p","i","c"," ","m","a","t","c","h","e","s"," ","r","e","q","u","e","s","t">>, TRUE>>,
     <<<<"A","c","t","i","o","n","a","b","l","e"," ","c","o","n","t","e","n","t"," ","p","r","e","s","e","n","t">>, TRUE>>}

ContentRecommendations ==
    <<<<"C","o","n","s","i","d","e","r"," ","a","d","d","i","n","g"," ","m","o","r","e"," ","i","n","t","e","r","n","a","l"," ","l","i","n","k","s">>,
      <<"I","n","c","l","u","d","e"," ","a","d","d","i","t","i","o","n","a","l"," ","s","t","a","t","i","s","t","i","c","s"," ","f","r","o","m"," ","t","r","u","s","t","e","d"," ","s","o","u","r","c","e","s">>,
      <<"A","d","d"," ","F","A","Q"," ","s","e","c","t","i","o","n"," ","f","o","r"," ","f","e","a","t","u","r","e","d"," ","s","n","i","p","p","e","t","s">>>>

\* HealthcareAgentOrchestrator._parse_seo_content(content), content a str
_parse_seo_content(content) ==
    LET sc == SeoFold(SeoDefaults, Split(content, "\n"))
        overall == SeoSum(sc)
    IN  [overall_score |-> overall,
         keyword_score |-> sc.keyword_score,
         heading_score |-> sc.heading_score,
         length_score |-> sc.length_score,
         readability_score |-> sc.readability_score,
         relevance_score |-> sc.relevance_score,
         intent_score |-> sc.intent_score,
         validation_checklist |-> ContentChecklist,
         recommendations |-> ContentRecommendations,
         pass_status |-> FGeq(overall, PassThreshold)]

(***************************************************************************)
(* agents/orchestrator.py: _parse_article_content                          *)
(***************************************************************************)
\* s[:n]
Take(s, n) == SubSeq(s, 1, IF Len(s) < n THEN Len(s) ELSE n)

\* s[n:]
Drop(s, n) == SubSeq(s, n + 1, Len(s))

\* len(s.split()): the number of maximal runs of non-whitespace characters
WordCount(s) ==
    Cardinality({i \in 1..Len(s) :
                    ~IsSpace(s[i]) /\ (i = 1 \/ IsSpace(s[i - 1]))})

\* the window content[:500] and the bounds len(line) > 50, [:160]
MetaWindow == 500
MetaLineMin == 50
MetaMaxLen == 160

\* the lines of the first ten the title is looked for in
TitleLines == 10

W_meta == <<"m","e","t","a">>
P_Meta_Description == <<"M","e","t","a"," ","D","e","s","c","r","i","p","t","i","o","n",":">>
P_META == <<"M","E","T","A",":">>
P_H1 == <<"#"," ">>
P_H2 == <<"#","#"," ">>
P_H3 == <<"#","#","#"," ">>

\* meta_desc of _parse_article_content
ArticleMeta(content, topic_query) ==
    LET default == <<"C","o","m","p","r","e","h","e","n","s","i","v","e"," ","g","u","i","d","e"," ","t","o"," ">> \o topic_query
                   \o <<"."," ","L","a","t","e","s","t"," ","u","p","d","a","t","e","s",","," ","e","x","p","e","r","t"," ","i","n","s","i","g","h","t","s",","," ","a","n","d"," ","a","c","t","i","o","n","a","b","l","e"," ","i","n","f","o","r","m","a","t","i","o","n"," ","f","o","r"," ","2","0","2","5",".">>
        lines == Split(Take(content, MetaWindow), "\n")
        hit == {i \in 1..Len(lines) :
                   Contains(Lower(lines[i]), W_meta) /\ Len(lines[i]) > MetaLineMin}
    IN  IF Contains(Take(Lower(content), MetaWindow), W_meta) /\ hit # {}
        THEN LET i == CHOOSE j \in hit : \A k \in hit : j <= k
             IN  Take(Strip(Remove(Remove(lines[i], P_Meta_Description), P_META)),
                      MetaMaxLen)
        ELSE default

\* title of _parse_article_content
ArticleTitle(content, topic_query) ==
    LET lines == Take(Split(content, "\n"), TitleLines)
        hit == {i \in 1..Len(lines) : StartsWith(lines[i], P_H1)}
    IN  IF hit # {}
        THEN Strip(Drop(lines[CHOOSE j \in hit : \A k \in hit : j <= k], 2))
        ELSE <<"C","o","m","p","l","e","t","e"," ","G","u","i","d","e"," ","t","o"," ">> \o topic_query \o <<":"," ","2","0","2","5"," ","U","p","d","a","t","e","s">>

\* headings of _parse_article_content
RECURSIVE ArticleHeadings(_)
ArticleHeadings(lines) ==
    IF lines = <<>> THEN <<>>
    ELSE (IF StartsWith(Head(lines), P_H2)
          THEN <<[level |-> "H2", text |-> Strip(Drop(Head(lines), 3))]>>
          ELSE IF StartsWith(Head(lines), P_H3)
          THEN <<[level |-> "H3", text |-> Strip(Drop(Head(lines), 4))]>>
          ELSE <<>>) \o ArticleHeadings(Tail(lines))

\* HealthcareAgentOrchestrator._parse_article_content
_parse_article_content(content, topic_query, trending_topic) ==
    [title |-> ArticleTitle(content, topic_query),
     meta_description |-> ArticleMeta(content, topic_query),
     content |-> content,
     primary_keywords |->
         IF trending_topic.keywords # <<>> THEN Take(trending_topic.keywords, 3)
         ELSE <<Lower(topic_query)>>,
     secondary_keywords |->
         IF Len(trending_topic.keywords) > 3 THEN Drop(trending_topic.keywords, 3)
         ELSE <<<<"h","e","a","l","t","h","c","a","r","e">>, <<"2","0","2","5">>>>,
     headings |-> ArticleHeadings(Split(content, "\n")),
     word_count |-> WordCount(content),
     image_suggestions |->
         <<[description |-> <<"I","n","f","o","g","r","a","p","h","i","c"," ","a","b","o","u","t"," ">> \o topic_query,
            alt_text |-> topic_query \o <<" ","o","v","e","r","v","i","e","w"," ","i","n","f","o","g","r","a","p","h","i","c">>],
           [description |-> <<"H","e","a","l","t","h","c","a","r","e"," ","p","r","o","f","e","s","s","i","o","n","a","l"," ","c","o","n","s","u","l","t","a","t","i","o","n">>,
            alt_text |-> <<"D","o","c","t","o","r"," ","d","i","s","c","u","s","s","i","n","g"," ","h","e","a","l","t","h","c","a","r","e"," ","o","p","t","i","o","n","s">>],
           [description |-> <<"C","o","v","e","r","a","g","e"," ","c","o","m","p","a","r","i","s","o","n"," ","c","h","a","r","t">>,
            alt_text |-> topic_query \o <<" ","b","e","n","e","f","i","t","s"," ","c","o","m","p","a","r","i","s","o","n">>]>>,
     internal_links |-> <<<<"M","e","d","i","c","a","r","e"," ","G","u","i","d","e">>, <<"M","e","d","i","c","a","i","d"," ","O","v","e","r","v","i","e","w">>, <<"A","C","A"," ","M","a","r","k","e","t","p","l","a","c","e">>>>,
     external_links |-> <<<<"h","e","a","l","t","h","c","a","r","e",".","g","o","v">>, <<"c","m","s",".","g","o","v">>, <<"k","f","f",".","o","r","g">>>>]

(***************************************************************************)
(* agents/orchestrator.py: _generate_demo                                  *)
(***************************************************************************)
\* _generate_demo_article: the template is kept by name, with its argument
DemoArticle(topic_query, category_path) ==
    <<"_generate_demo_article">> \o topic_query

\* len(_generate_demo_article(...).split()) for a topic_query of one word or
\* more: 727 words of template and 8 occurrences of the topic_query
DemoTemplateWords == 727
DemoTemplateSlots == 8

DemoTrendingTopic(topic_query) ==
    [title |-> <<"L","a","t","e","s","t"," ","U","p","d","a","t","e","s"," ","i","n"," ">> \o topic_query
               \o <<":"," ","W","h","a","t"," ","Y","o","u"," ","N","e","e","d"," ","t","o"," ","K","n","o","w"," ","i","n"," ","2","0","2","5">>,
     keywords |-> <<Lower(topic_query), <<"h","e","a","l","t","h","c","a","r","e">>, <<"u","s"," ","h","e","a","l","t","h","c","a","r","e">>,
                    <<"2","0","2","5"," ","u","p","d","a","t","e","s">>, <<"p","o","l","i","c","y"," ","c","h","a","n","g","e","s">>>>,
     source |-> <<"C","M","S",","," ","K","a","i","s","e","r"," ","F","a","m","i","l","y"," ","F","o","u","n","d","a","t","i","o","n",","," ","H","e","a","l","t","h","c","a","r","e",".","g","o","v">>,
     relevance_score |-> Fin(875, 10),
     description |-> <<"A"," ","c","o","m","p","r","e","h","e","n","s","i","v","e"," ","o","v","e","r","v","i","e","w"," ","o","f"," ","r","e","c","e","n","t"," ","d","e","v","e","l","o","p","m","e","n","t","s"," ","i","n"," ">>
                     \o topic_query \o <<" ","a","f","f","e","c","t","i","n","g"," ","m","i","l","l","i","o","n","s"," ","o","f"," ","A","m","e","r","i","c","a","n","s",".">>,
     trending_reason |-> <<"R","e","c","e","n","t"," ","p","o","l","i","c","y"," ","u","p","d","a","t","e","s"," ","a","n","d"," ","e","n","r","o","l","l","m","e","n","t"," ","p","e","r","i","o","d"," ","c","h","a","n","g","e","s"," ","h","a","v","e"," ","m","a","d","e"," ","t","h","i","s"," ","t","o","p","i","c"," ","h","i","g","h","l","y"," ","r","e","l","e","v","a","n","t",".">>]

DemoSEOArticle(topic_query, category_path) ==
    [title |-> <<"C","o","m","p","l","e","t","e"," ","G","u","i","d","e"," ","t","o"," ">> \o topic_query
               \o <<":"," ","2","0","2","5"," ","U","p","d","a","t","e","s"," ","a","n","d"," ","E","s","s","e","n","t","i","a","l"," ","I","n","f","o","r","m","a","t","i","o","n">>,
     meta_description |-> <<"D","i","s","c","o","v","e","r"," ","e","v","e","r","y","t","h","i","n","g"," ","y","o","u"," ","n","e","e","d"," ","t","o"," ","k","n","o","w"," ","a","b","o","u","t"," ">>
         \o topic_query
         \o <<" ","i","n"," ","2","0","2","5","."," ","E","x","p","e","r","t"," ","i","n","s","i","g","h","t","s",","," ","l","a","t","e","s","t"," ","p","o","l","i","c","y"," ","c","h","a","n","g","e","s",","," ","a","n","d"," ","a","c","t","i","o","n","a","b","l","e"," ","g","u","i","d","a","n","c","e"," ","f","o","r"," ","U","S"," ","h","e","a","l","t","h","c","a","r","e"," ","c","o","n","s","u","m","e","r","s",".">>,
     content |-> DemoArticle(topic_query, category_path),
     primary_keywords |-> <<Lower(topic_query), <<"h","e","a","l","t","h","c","a","r","e">>, <<"i","n","s","u","r","a","n","c","e">>>>,
     secondary_keywords |-> <<<<"c","o","v","e","r","a","g","e">>, <<"b","e","n","e","f","i","t","s">>, <<"e","l","i","g","i","b","i","l","i","t","y">>,
                              <<"e","n","r","o","l","l","m","e","n","t">>, <<"2","0","2","5">>>>,
     headings |->
         <<[level |-> "H2", text |-> <<"U","n","d","e","r","s","t","a","n","d","i","n","g"," ">> \o topic_query],
           [level |-> "H2", text |-> <<"K","e","y"," ","B","e","n","e","f","i","t","s"," ","a","n","d"," ","C","o","v","e","r","a","g","e">>],
           [level |-> "H2", text |-> <<"E","l","i","g","i","b","i","l","i","t","y"," ","R","e","q","u","i","r","e","m","e","n","t","s">>],
           [level |-> "H2", text |-> <<"R","e","c","e","n","t"," ","P","o","l","i","c","y"," ","U","p","d","a","t","e","s"," ","f","o","r"," ","2","0","2","5">>],
           [level |-> "H2", text |-> <<"H","o","w"," ","t","o"," ","E","n","r","o","l","l">>],
           [level |-> "H2", text |-> <<"F","r","e","q","u","e","n","t","l","y"," ","A","s","k","e","d"," ","Q","u","e","s","t","i","o","n","s">>]>>,
     word_count |-> DemoTemplateWords + DemoTemplateSlots * WordCount(topic_query),
     image_suggestions |->
         <<[description |-> <<"I","n","f","o","g","r","a","p","h","i","c"," ","s","h","o","w","i","n","g"," ","c","o","v","e","r","a","g","e"," ","o","p","t","i","o","n","s">>,
            alt_text |-> topic_query \o <<" ","c","o","v","e","r","a","g","e"," ","c","o","m","p","a","r","i","s","o","n"," ","c","h","a","r","t">>],
           [description |-> <<"H","e","a","l","t","h","c","a","r","e"," ","p","r","o","f","e","s","s","i","o","n","a","l"," ","w","i","t","h"," ","p","a","t","i","e","n","t">>,
            alt_text |-> <<"D","o","c","t","o","r"," ","c","o","n","s","u","l","t","a","t","i","o","n"," ","f","o","r"," ","h","e","a","l","t","h","c","a","r","e"," ","b","e","n","e","f","i","t","s">>],
           [description |-> <<"E","n","r","o","l","l","m","e","n","t"," ","t","i","m","e","l","i","n","e"," ","g","r","a","p","h","i","c">>,
            alt_text |-> <<"K","e","y"," ","e","n","r","o","l","l","m","e","n","t"," ","d","a","t","e","s"," ","f","o","r"," ","2","0","2","5">>]>>,
     internal_links |-> <<<<"M","e","d","i","c","a","r","e"," ","O","v","e","r","v","i","e","w">>, <<"M","e","d","i","c","a","i","d"," ","B","a","s","i","c","s">>,
                          <<"A","C","A"," ","M","a","r","k","e","t","p","l","a","c","e"," ","G","u","i","d","e">>>>,
     external_links |-> <<<<"h","e","a","l","t","h","c","a","r","e",".","g","o","v">>, <<"c","m","s",".","g","o","v">>, <<"k","f","f",".","o","r","g">>>>]

DemoSEOValidation ==
    [overall_score |-> Fin(845, 10),
     keyword_score |-> Fin(17, 1),
     heading_score |-> Fin(14, 1),
     length_score |-> Fin(13, 1),
     readability_score |-> Fin(135, 10),
     relevance_score |-> Fin(14, 1),
     intent_score |-> Fin(85, 10),
     validation_checklist |-> ContentChecklist,
     recommendations |->
         <<<<"C","o","n","s","i","d","e","r"," ","a","d","d","i","n","g"," ","m","o","r","e"," ","i","n","t","e","r","n","a","l"," ","l","i","n","k","s"," ","t","o"," ","r","e","l","a","t","e","d"," ","h","e","a","l","t","h","c","a","r","e"," ","t","o","p","i","c","s">>,
           <<"I","n","c","l","u","d","e"," ","1","-","2"," ","m","o","r","e"," ","s","t","a","t","i","s","t","i","c","s"," ","f","r","o","m"," ","t","r","u","s","t","e","d"," ","s","o","u","r","c","e","s">>,
           <<"A","d","d"," ","a"," ","c","o","m","p","a","r","i","s","o","n"," ","t","a","b","l","e"," ","f","o","r"," ","b","e","t","t","e","r"," ","v","i","s","u","a","l"," ","e","n","g","a","g","e","m","e","n","t">>>>,
     pass_status |-> TRUE]

\* ConsolidatedOutput; generation_timestamp (the wall clock) is left out
ConsolidatedOutput(article, seo_validation, trending_topic, category_path) ==
    [article |-> article,
     seo_validation |-> seo_validation,
     trending_topic |-> trending_topic,
     category_path |-> category_path,
     download_ready |-> TRUE]

\* the value _generate_demo returns
DemoOutput(topic_query, category_path) ==
    ConsolidatedOutput(DemoSEOArticle(topic_query, category_path),
                       DemoSEOValidation,
                       DemoTrendingTopic(topic_query),
                       category_path)

(***************************************************************************)
(* utils/document_export.py: get_download_filename                         *)
(***************************************************************************)
\* the en dash of the topic names ("Diagnosis - ICD-10-CM" is written with
\* one): a character that is neither \w, \s nor '-'
EnDash == "ENDASH"

\* \w, of the model's characters
IsWordChar(c) ==
    \/ IndexIn(c, UpperLetters) > 0
    \/ IndexIn(c, LowerLetters) > 0
    \/ IndexIn(c, Digits) > 0
    \/ c = "_"

\* re.sub(r'[^\w\s-]', '', s)
RemoveUnclean(s) ==
    SelectSeq(s, LAMBDA c : IsWordChar(c) \/ IsSpace(c) \/ c = "-")

\* re.sub(r'\s+', '_', s): every character that is not whitespace stays, and
\* the first character of every run of whitespace becomes '_'
SpacesToUnderscore(s) ==
    LET kept == SelectSeq([i \in 1..Len(s) |-> i],
                          LAMBDA i : ~IsSpace(s[i]) \/ i = 1 \/ ~IsSpace(s[i - 1]))
    IN  [k \in 1..Len(kept) |-> IF IsSpace(s[kept[k]]) THEN "_" ELSE s[kept[k]]]

\* clean_title[:50]
FilenameTitleMax == 50

\* str(n) for n >= 0
RECURSIVE DigitsOf(_)
DigitsOf(n) ==
    IF n < 10 THEN <<Digits[n + 1]>>
    ELSE DigitsOf(n \div 10) \o <<Digits[(n % 10) + 1]>>

ZeroPad(s, width) ==
    [i \in 1..(width - Len(s)) |-> "0"] \o s

\* now.strftime("%Y%m%d")
Strftime_Ymd(now) ==
    ZeroPad(DigitsOf(now.year), 4) \o ZeroPad(DigitsOf(now.month), 2)
    \o ZeroPad(DigitsOf(now.day), 2)

\* get_download_filename that only replaces the whitespace
get_download_filename_SpacesOnly(title, format, now) ==
    <<"H","e","a","l","t","h","P","u","l","s","e","_">> \o Take(SpacesToUnderscore(title), FilenameTitleMax)
    \o <<"_">> \o Strftime_Ymd(now) \o <<".">> \o format

\* get_download_filename(title, format), with the date datetime.now() reads
get_download_filename(title, format, now) ==
    LET clean_title == Take(SpacesToUnderscore(RemoveUnclean(title)),
                            FilenameTitleMax)
        timestamp == Strftime_Ymd(now)
    IN  <<"H","e","a","l","t","h","P","u","l","s","e","_">> \o clean_title \o <<"_">> \o timestamp \o <<".">> \o format

(***************************************************************************)
(* agents/orchestrator.py: HealthcareAgentOrchestrator                     *)
(***************************************************************************)
VARIABLES
    api_key,            \* self.api_key
    autogen_available,  \* self.autogen_available
    openai_client,      \* self.openai_client: "None" or "OpenAI"
    message_history,    \* self.message_history
    closed,             \* history: close() has been called
    pc,                 \* the position of the generate_article call
    frame,              \* which call of the pipeline is running (see Frames)
    topic_query, category_path, progress_callback,  \* the call's arguments
    trend_content, trending_topic, article_content, seo_content,
                        \* locals of _generate_with_openai
    seo_article, seo_validation,
    outstanding,        \* the chat-completion requests in flight
    requests,           \* history: the requests issued by this call
    progress,           \* history: the calls progress_callback received
    log,                \* history: the steps of this call
    failures,           \* history: what raised during this call
    result,             \* <<value>> once generate_article has returned
    p_fn, p_input, p_out  \* a function applied on its own: which, to what, output

orch_vars == <<api_key, autogen_available, openai_client, message_history, closed>>
call_vars == <<pc, frame, topic_query, category_path, progress_callback,
               trend_content, trending_topic, article_content,
                   seo_content, seo_article,
               seo_validation, outstanding, requests, progress, log, failures,
               result>>
parser_vars == <<p_fn, p_input, p_out>>
vars == <<orch_vars, call_vars, parser_vars>>

\* a value that may be None: message.content of a response
NoneValue == [is_none |-> TRUE, s |-> <<>>]
Str(s) == [is_none |-> FALSE, s |-> s]

\* an unbound local / no value yet
Unset == <<>>

\* the api_key arguments of __init__: None, '' and a key
ApiKeys == {"None", "", "sk-key"}
Truthy(key) == key \notin {"None", ""}

\* config.py: build_topic_query.  main_category is a str; the other three
\* arguments may be None.
W_ALL == <<"A","L","L">>
QuerySeparator == <<" ","-"," ">>

\* `if v': the argument is neither None nor ''
NonEmpty(v) == ~v.is_none /\ v.s # <<>>

\* build_topic_query that tests detailed as it tests specific
build_topic_query_DetailedSkipsAll(main_category, subcategory, specific, detailed) ==
    JoinStr(<<main_category>>
            \o (IF NonEmpty(subcategory) /\ subcategory.s # W_ALL
                THEN <<subcategory.s>> ELSE <<>>)
            \o (IF NonEmpty(specific) /\ specific.s # W_ALL
                THEN <<specific.s>> ELSE <<>>)
            \o (IF NonEmpty(detailed) /\ detailed.s # W_ALL
                THEN <<detailed.s>> ELSE <<>>),
            QuerySeparator)

build_topic_query(main_category, subcategory, specific, detailed) ==
    LET parts1 == <<main_category>>
        parts2 == IF NonEmpty(subcategory) /\ subcategory.s # W_ALL
                  THEN Append(parts1, subcategory.s) ELSE parts1
        parts3 == IF NonEmpty(specific) /\ specific.s # W_ALL
                  THEN Append(parts2, specific.s) ELSE parts2
        parts4 == IF NonEmpty(detailed)
                  THEN Append(parts3, detailed.s) ELSE parts3
    IN  JoinStr(parts4, QuerySeparator)

\* the topic queries app.py builds for the selections (CODES, ALL) and
\* (GOVERNMENT PLANS, Medicare, ALL)
TopicQueries ==
    {build_topic_query(<<"C","O","D","E","S">>, Str(W_ALL), NoneValue, NoneValue),
     build_topic_query(<<"G","O","V","E","R","N","M","E","N","T"," ","P","L","A","N","S">>, Str(<<"M","e","d","i","c","a","r","e">>), Str(W_ALL), NoneValue)}
CategoryPaths == {<<"C","O","D","E","S">>, <<"G","O","V","E","R","N","M","E","N","T"," ","P","L","A","N","S">>}
Callbacks == {"None", "callable"}

\* message.content of the three responses
TrendContents ==
    {NoneValue,
     Str(<<"T","O","P","I","C"," ","T","I","T","L","E",":"," ","M","e","d","i","c","a","r","e","\n","P","R","I","M","A","R","Y"," ","K","E","Y","W","O","R","D","S",":"," ","a",","," ","b","\n","R","E","L","E","V","A","N","C","E"," ","S","C","O","R","E",":"," ","8","5">>),
     Str(<<"T","i","t","l","e",":"," ","x">>)}

WriterContents ==
    {NoneValue,
     Str(<<"#"," ","G","u","i","d","e","\n","M","e","t","a"," ","D","e","s","c","r","i","p","t","i","o","n",":"," ","T","r","u","s","t","e","d"," ","g","u","i","d","a","n","c","e"," ","o","n"," ","M","e","d","i","c","a","r","e"," ","p","l","a","n","s"," ","f","o","r"," ","2","0","2","5",".","\n","#","#"," ","P","l","a","n","s","\n","t","e","x","t">>),
     Str(<<"t","e","x","t"," ","o","n","l","y">>)}

SeoContents ==
    {NoneValue,
     Str(<<"K","e","y","w","o","r","d"," ","U","s","a","g","e",":"," ","1","7","/","2","0","\n","T","o","p","i","c"," ","R","e","l","e","v","a","n","c","e",":"," ","2","/","1","5">>),
     Str(<<"L","o","o","k","s"," ","g","o","o","d">>)}

\* LiveOrder with 'Complete!' reported before the responses are parsed
LiveOrder_CompleteFirst ==
    <<"live_cb15", "live_req_trend", "live_wait_trend", "live_sleep1",
      "live_cb40", "live_req_writer", "live_wait_writer", "live_sleep2",
      "live_cb70", "live_req_seo", "live_wait_seo", "live_sleep3",
      "live_cb90", "live_cb100", "live_consolidate", "live_return">>

\* LiveOrder with the writer asked before the trend analyst
LiveOrder_WriterFirst ==
    <<"live_cb40", "live_req_writer", "live_wait_writer", "live_sleep2",
      "live_cb15", "live_req_trend", "live_wait_trend", "live_sleep1",
      "live_cb70", "live_req_seo", "live_wait_seo", "live_sleep3",
      "live_cb90", "live_consolidate", "live_cb100", "live_return">>

\* the statements of _generate_with_openai's try block, in order
LiveOrder ==
    <<"live_cb15", "live_req_trend", "live_wait_trend", "live_sleep1",
      "live_cb40", "live_req_writer", "live_wait_writer", "live_sleep2",
      "live_cb70", "live_req_seo", "live_wait_seo", "live_sleep3",
      "live_cb90", "live_consolidate", "live_cb100", "live_return">>

\* the statements of _generate_demo, in order
DemoOrder ==
    <<"demo_cb20", "demo_sleep1", "demo_cb50", "demo_sleep2", "demo_cb75",
      "demo_sleep3", "demo_cb95", "demo_sleep4", "demo_cb100", "demo_return">>

InOrder(p, order) == \E i \in 1..Len(order) : order[i] = p
IsLive(p) == InOrder(p, LiveOrder)
IsDemo(p) == InOrder(p, DemoOrder)

\* the statement after p
Succ(p) ==
    LET order == IF IsLive(p) THEN LiveOrder ELSE DemoOrder
    IN  order[(CHOOSE i \in 1..Len(order) : order[i] = p) + 1]

\* the arguments of each progress_callback(...) statement
ProgressArgs ==
    [live_cb15 |-> [msg |-> "Agent 1: Discovering trends...", pct |-> 15],
     live_cb40 |-> [msg |-> "Agent 2: Writing article...", pct |-> 40],
     live_cb70 |-> [msg |-> "Agent 3: Validating SEO...", pct |-> 70],
     live_cb90 |-> [msg |-> "Agent 4: Consolidating...", pct |-> 90],
     live_cb100 |-> [msg |-> "Complete!", pct |-> 100],
     demo_cb20 |-> [msg |-> "Agent 1: Discovering trends...", pct |-> 20],
     demo_cb50 |-> [msg |-> "Agent 2: Writing article...", pct |-> 50],
     demo_cb75 |-> [msg |-> "Agent 3: Validating SEO...", pct |-> 75],
     demo_cb95 |-> [msg |-> "Agent 4: Consolidating...", pct |-> 95],
     demo_cb100 |-> [msg |-> "Complete!", pct |-> 100]]

CallbackPcs == DOMAIN ProgressArgs
SleepPcs ==
    {"live_sleep1", "live_sleep2", "live_sleep3",
     "demo_sleep1", "demo_sleep2", "demo_sleep3", "demo_sleep4"}

\* the request each create(...) statement issues
RequestOf ==
    [live_req_trend |-> "trend", live_req_writer |-> "writer", live_req_seo |-> "seo"]
AwaitedAt ==
    [live_wait_trend |-> "trend", live_wait_writer |-> "writer", live_wait_seo |-> "seo"]

\* no call is running
AtRest == pc \in {"idle", "done", "propagated"}

\* Frames: "live" is _generate_with_openai called at line 70; "direct" is
\* _generate_demo called at line 73; "inner" is _generate_demo called by the
\* handler at line 199; "outer" is _generate_demo called by the handler at line 79
Frames == {"none", "live", "direct", "inner", "outer"}

\* LiveCondition that tests the flag alone
LiveCondition_FlagOnly == autogen_available

\* the condition of line 68
LiveCondition == autogen_available /\ openai_client # "None"

\* __init__
Construct ==
    /\ api_key \in ApiKeys
    /\ \E init_ok \in BOOLEAN :
          /\ autogen_available = (Truthy(api_key) /\ init_ok)
          /\ openai_client = IF Truthy(api_key) /\ init_ok THEN "OpenAI" ELSE "None"
    /\ message_history = <<>>
    /\ closed = FALSE
    /\ pc = "idle"
    /\ frame = "none"
    /\ topic_query = <<>>
    /\ category_path = <<>>
    /\ progress_callback = "None"
    /\ trend_content = NoneValue
    /\ trending_topic = Unset
    /\ article_content = NoneValue
    /\ seo_content = NoneValue
    /\ seo_article = Unset
    /\ seo_validation = Unset
    /\ outstanding = {}
    /\ requests = <<>>
    /\ progress = <<>>
    /\ log = <<>>
    /\ failures = <<>>
    /\ result = Unset

\* a constructed orchestrator; no parser is applied on its own
Init ==
    /\ Construct
    /\ p_fn = "none"
    /\ p_input = <<>>
    /\ p_out = <<>>

\* generate_article, lines 65-73: reset the history, choose the pipeline
GenerateArticle(tq, cp, cb) ==
    /\ AtRest
    /\ message_history' = <<>>
    /\ topic_query' = tq
    /\ category_path' = cp
    /\ progress_callback' = cb
    /\ IF LiveCondition
       THEN pc' = Head(LiveOrder) /\ frame' = "live"
            /\ log' = <<"enter:_generate_with_openai">>
       ELSE pc' = Head(DemoOrder) /\ frame' = "direct"
            /\ log' = <<"enter:_generate_demo">>
    /\ trend_content' = NoneValue
    /\ trending_topic' = Unset
    /\ article_content' = NoneValue
    /\ seo_content' = NoneValue
    /\ seo_article' = Unset
    /\ seo_validation' = Unset
    /\ outstanding' = {}
    /\ requests' = <<>>
    /\ progress' = <<>>
    /\ failures' = <<>>
    /\ result' = Unset
    /\ UNCHANGED <<api_key, autogen_available, openai_client, closed, parser_vars>>

\* Raise without the handlers of lines 74 and 197: the exception leaves
\* generate_article
Raise_Propagates(cause) ==
    /\ failures' = Append(failures, cause)
    /\ outstanding' = {}
    /\ pc' = "propagated"
    /\ frame' = "none"
    /\ log' = Append(log, "raise")

\* Raise with a handler at line 197 that runs the live pipeline again
Raise_Retry(cause) ==
    /\ failures' = Append(failures, cause)
    /\ outstanding' = {}
    /\ IF frame = "live"
       THEN pc' = "live_req_trend" /\ frame' = "live"
            /\ log' = Append(log, "except:197")
       ELSE IF frame \in {"direct", "inner"}
       THEN pc' = Head(DemoOrder) /\ frame' = "outer"
            /\ log' = log \o <<"except:74", "enter:_generate_demo">>
       ELSE pc' = "propagated" /\ frame' = "none"
            /\ log' = Append(log, "raise")

\* an exception raised at the current statement: inside the try of
\* _generate_with_openai it is caught at line 197, which calls _generate_demo;
\* inside a _generate_demo called from generate_article's try (directly or by
\* that handler) it is caught at line 74, which calls _generate_demo; inside
\* that last _generate_demo nothing catches it
Raise(cause) ==
    /\ failures' = Append(failures, cause)
    /\ outstanding' = {}
    /\ IF frame = "live"
       THEN pc' = Head(DemoOrder) /\ frame' = "inner"
            /\ log' = log \o <<"except:197", "enter:_generate_demo">>
       ELSE IF frame \in {"direct", "inner"}
       THEN pc' = Head(DemoOrder) /\ frame' = "outer"
            /\ log' = log \o <<"except:74", "enter:_generate_demo">>
       ELSE pc' = "propagated" /\ frame' = "none"
            /\ log' = Append(log, "raise")

\* if progress_callback: progress_callback(msg, pct), and the callback returns
Progress ==
    /\ pc \in CallbackPcs
    /\ pc' = Succ(pc)
    /\ progress' = IF progress_callback = "None" THEN progress
                   ELSE Append(progress, ProgressArgs[pc])
    /\ UNCHANGED <<orch_vars, frame, topic_query, category_path, progress_callback,
                   trend_content, trending_topic, article_content,
                   seo_content, seo_article,
                   seo_validation, outstanding, requests, log, failures, result,
                   parser_vars>>

\* progress_callback(msg, pct), and the callback raises
ProgressRaises ==
    /\ pc \in CallbackPcs
    /\ progress_callback # "None"
    /\ progress' = Append(progress, ProgressArgs[pc])
    /\ Raise("callback")
    /\ UNCHANGED <<orch_vars, topic_query, category_path, progress_callback,
                   trend_content, trending_topic, article_content,
                   seo_content, seo_article,
                   seo_validation, requests, result, parser_vars>>

\* await asyncio.sleep(...)
Sleep ==
    /\ pc \in SleepPcs
    /\ pc' = Succ(pc)
    /\ UNCHANGED <<orch_vars, frame, topic_query, category_path, progress_callback,
                   trend_content, trending_topic, article_content,
                   seo_content, seo_article,
                   seo_validation, outstanding, requests, progress, log, failures,
                   result, parser_vars>>

\* self.openai_client.chat.completions.create(...): the request goes out.
\* The SEO prompt slices article_content, which raises on None.
IssueRequest ==
    /\ pc \in DOMAIN RequestOf
    /\ IF pc = "live_req_seo" /\ article_content.is_none
       THEN Raise("content:writer") /\ UNCHANGED requests
       ELSE /\ pc' = Succ(pc)
            /\ outstanding' = outstanding \cup {RequestOf[pc]}
            /\ requests' = Append(requests, RequestOf[pc])
            /\ log' = Append(log, "request:" \o RequestOf[pc])
            /\ UNCHANGED <<frame, failures>>
    /\ UNCHANGED <<orch_vars, topic_query, category_path, progress_callback,
                   trend_content, trending_topic, article_content,
                   seo_content, seo_article,
                   seo_validation, progress, result, parser_vars>>

\* create(...) returns and .choices[0].message.content is read; the trend
\* response is parsed at once
RequestReturns(content) ==
    /\ pc \in DOMAIN AwaitedAt
    /\ LET kind == AwaitedAt[pc] IN
       /\ kind \in outstanding
       /\ content \in (CASE kind = "trend" -> TrendContents
                         [] kind = "writer" -> WriterContents
                         [] kind = "seo" -> SeoContents)
       /\ IF kind = "trend" /\ content.is_none
          THEN /\ Raise("content:trend")
               /\ trend_content' = content
               /\ UNCHANGED <<trending_topic, article_content, seo_content>>
          ELSE /\ pc' = Succ(pc)
               /\ trend_content' = IF kind = "trend" THEN content ELSE trend_content
               /\ outstanding' = outstanding \ {kind}
               /\ trending_topic' = IF kind = "trend"
                                    THEN <<parse_trending_topic(content.s)>>
                                    ELSE trending_topic
               /\ article_content' = IF kind = "writer" THEN content ELSE article_content
               /\ seo_content' = IF kind = "seo" THEN content ELSE seo_content
               /\ log' = log \o (IF kind = "trend"
                                 THEN <<"response:trend", "parse:trend">>
                                 ELSE <<"response:" \o kind>>)
               /\ UNCHANGED <<frame, failures>>
    /\ UNCHANGED <<orch_vars, topic_query, category_path, progress_callback,
                   seo_article, seo_validation, requests, progress, result,
                   parser_vars>>

\* create(...) raises
RequestRaises ==
    /\ pc \in DOMAIN AwaitedAt
    /\ AwaitedAt[pc] \in outstanding
    /\ Raise("request:" \o AwaitedAt[pc])
    /\ UNCHANGED <<orch_vars, topic_query, category_path, progress_callback,
                   trend_content, trending_topic, article_content,
                   seo_content, seo_article,
                   seo_validation, requests, progress, result, parser_vars>>

\* lines 183-184: _parse_article_content, then _parse_seo_content, which
\* raises on None
Consolidate ==
    /\ pc = "live_consolidate"
    /\ IF seo_content.is_none
       THEN /\ Raise("content:seo")
            /\ seo_article' = <<_parse_article_content(article_content.s, topic_query,
                                                       trending_topic[1])>>
            /\ UNCHANGED seo_validation
       ELSE /\ pc' = Succ(pc)
            /\ seo_article' = <<_parse_article_content(article_content.s, topic_query,
                                                       trending_topic[1])>>
            /\ seo_validation' = <<_parse_seo_content(seo_content.s)>>
            /\ log' = Append(log, "consolidate")
            /\ UNCHANGED <<frame, failures, outstanding>>
    /\ UNCHANGED <<orch_vars, topic_query, category_path, progress_callback,
                   trend_content, trending_topic, article_content,
                   seo_content, requests,
                   progress, result, parser_vars>>

\* return ConsolidatedOutput(...), from either pipeline
Return ==
    /\ pc \in {"live_return", "demo_return"}
    /\ pc' = "done"
    /\ frame' = "none"
    /\ result' = IF pc = "live_return"
                 THEN <<ConsolidatedOutput(seo_article[1], seo_validation[1],
                                           trending_topic[1], category_path)>>
                 ELSE <<DemoOutput(topic_query, category_path)>>
    /\ log' = Append(log, IF pc = "live_return" THEN "return:live" ELSE "return:demo")
    /\ UNCHANGED <<orch_vars, topic_query, category_path, progress_callback,
                   trend_content, trending_topic, article_content,
                   seo_content, seo_article,
                   seo_validation, outstanding, requests, progress, failures,
                   parser_vars>>

\* close(), between calls
Close ==
    /\ AtRest
    /\ openai_client' = "None"
    /\ closed' = TRUE
    /\ UNCHANGED <<api_key, autogen_available, message_history, call_vars, parser_vars>>

\* get_message_history(): return self.message_history
get_message_history == message_history

Next ==
    \/ \E tq \in TopicQueries, cp \in CategoryPaths, cb \in Callbacks :
          GenerateArticle(tq, cp, cb)
    \/ Progress
    \/ ProgressRaises
    \/ Sleep
    \/ IssueRequest
    \/ \E content \in TrendContents \cup WriterContents \cup SeoContents :
          RequestReturns(content)
    \/ RequestRaises
    \/ Consolidate
    \/ Return
    \/ Close

Spec == Init /\ [][Next]_vars

(***************************************************************************)
(* The parsers applied on their own, to every response of at most MaxLines *)
(* lines drawn from TrendLines / SeoLines.                                 *)
(***************************************************************************)
MaxLines == 2

TL_title ==
    <<"T","O","P","I","C"," ","T","I","T","L","E",":"," ","M","e","d","i","c","a","r","e">>

TL_title_indented ==
    <<" "," ","T","O","P","I","C"," ","T","I","T","L","E",":"," ","A","C","A"," ">>

TL_keywords ==
    <<"P","R","I","M","A","R","Y"," ","K","E","Y","W","O","R","D","S",":"," ","a",","," ","b">>

TL_reason ==
    <<"T","R","E","N","D","I","N","G"," ","R","E","A","S","O","N",":"," ","n","e","w">>

TL_source ==
    <<"S","O","U","R","C","E"," ","R","E","F","E","R","E","N","C","E","S",":"," ","C","M","S">>

TL_score ==
    <<"R","E","L","E","V","A","N","C","E"," ","S","C","O","R","E",":"," ","8","5">>

TL_score_of_100 ==
    <<"R","E","L","E","V","A","N","C","E"," ","S","C","O","R","E",":"," ","9","0",".","5","/","1","0","0">>

TL_score_word ==
    <<"R","E","L","E","V","A","N","C","E"," ","S","C","O","R","E",":"," ","h","i","g","h">>

TL_score_nan ==
    <<"R","E","L","E","V","A","N","C","E"," ","S","C","O","R","E",":"," ","n","a","n">>

TL_description ==
    <<"B","R","I","E","F"," ","D","E","S","C","R","I","P","T","I","O","N",":"," ","d">>

TL_other ==
    <<"T","i","t","l","e",":"," ","x">>

TL_empty ==
    <<>>

SL_keyword ==
    <<"-"," ","K","e","y","w","o","r","d"," ","U","s","a","g","e",":"," ","1","7","/","2","0">>

SL_keyword_over ==
    <<"K","e","y","w","o","r","d"," ","U","s","a","g","e",":"," ","2","5","/","2","0">>

SL_keyword_word ==
    <<"K","e","y","w","o","r","d"," ","U","s","a","g","e",":"," ","X","/","2","0">>

SL_keyword_nan ==
    <<"K","e","y","w","o","r","d"," ","U","s","a","g","e",":"," ","n","a","n","/","2","0">>

SL_heading ==
    <<"H","e","a","d","i","n","g"," ","S","t","r","u","c","t","u","r","e",":"," ","1","4","/","1","5">>

SL_heading_no_slash ==
    <<"H","e","a","d","i","n","g"," ","S","t","r","u","c","t","u","r","e",":"," ","9">>

SL_length ==
    <<"C","o","n","t","e","n","t"," ","L","e","n","g","t","h",":"," ","9","/","1","5">>

SL_readability ==
    <<"R","e","a","d","a","b","i","l","i","t","y",":"," ","1","3",".","5","/","1","5">>

SL_relevance ==
    <<"T","o","p","i","c"," ","R","e","l","e","v","a","n","c","e",":"," ","2","/","1","5">>

SL_intent ==
    <<"S","e","a","r","c","h"," ","I","n","t","e","n","t",":"," ","8","/","1","0">>

SL_overall ==
    <<"O","v","e","r","a","l","l"," ","s","c","o","r","e",":"," ","4","0","/","1","0","0">>

SL_overall_field ==
    <<"O","V","E","R","A","L","L","_","S","C","O","R","E",":"," ","8","2","/","1","0","0">>

SL_pass ==
    <<"P","A","S","S","_","S","T","A","T","U","S",":"," ","P","A","S","S">>

SL_fail ==
    <<"P","A","S","S","_","S","T","A","T","U","S",":"," ","F","A","I","L">>

SL_other ==
    <<"L","o","o","k","s"," ","g","o","o","d">>

TrendLines ==
    {TL_title, TL_title_indented, TL_keywords, TL_reason, TL_source, TL_score, TL_score_of_100, TL_score_word, TL_score_nan, TL_description, TL_other, TL_empty}

SeoLines ==
    {SL_keyword, SL_keyword_over, SL_keyword_word, SL_keyword_nan, SL_heading, SL_heading_no_slash, SL_length, SL_readability, SL_relevance, SL_intent, SL_overall, SL_overall_field, SL_pass, SL_fail, SL_other}

\* '\n'.join(lines) for every list of at most MaxLines of the given lines
Responses(lines) ==
    {Join(ls, "\n") : ls \in UNION {[1..k -> lines] : k \in 0..MaxLines}}

ParserFns == {"parse_trending_topic", "_parse_seo_content", "parse_seo_validation"}

\* a freshly constructed orchestrator and parser, and a response text
ParserInit ==
    /\ Construct
    /\ api_key = "None"
    /\ p_fn \in ParserFns
    /\ p_input \in IF p_fn = "parse_trending_topic"
                   THEN Responses(TrendLines) ELSE Responses(SeoLines)
    /\ p_out = <<>>

\* self.parser.parse_trending_topic(p_input)
ParseTrendingTopic ==
    /\ p_fn = "parse_trending_topic"
    /\ p_out = <<>>
    /\ p_out' = <<parse_trending_topic(p_input)>>
    /\ UNCHANGED <<orch_vars, call_vars, p_fn, p_input>>

\* self._parse_seo_content(p_input)
ParseSeoContent ==
    /\ p_fn = "_parse_seo_content"
    /\ p_out = <<>>
    /\ p_out' = <<_parse_seo_content(p_input)>>
    /\ UNCHANGED <<orch_vars, call_vars, p_fn, p_input>>

\* self.parser.parse_seo_validation(p_input)
ParseSeoValidation ==
    /\ p_fn = "parse_seo_validation"
    /\ p_out = <<>>
    /\ p_out' = <<parse_seo_validation(p_input)>>
    /\ UNCHANGED <<orch_vars, call_vars, p_fn, p_input>>

ParserNext ==
    \/ ParseTrendingTopic
    \/ ParseSeoContent
    \/ ParseSeoValidation

ParserSpec == ParserInit /\ [][ParserNext]_vars

(***************************************************************************)
(* build_topic_query applied on its own, to arguments drawn from the topic *)
(* hierarchy, 'ALL', '' and None.                                          *)
(***************************************************************************)
MainCategories == {<<"C","O","D","E","S">>, <<"G","O","V","E","R","N","M","E","N","T"," ","P","L","A","N","S">>, <<"A","L","L">>, <<>>}
Subcategories == {NoneValue, Str(<<>>), Str(<<"A","L","L">>), Str(<<"a","l","l">>), Str(<<"M","e","d","i","c","a","r","e">>)}
SpecificTopics == {NoneValue, Str(<<>>), Str(<<"A","L","L">>), Str(<<"P","a","r","t"," ","C"," ","(","M","e","d","i","c","a","r","e"," ","A","d","v","a","n","t","a","g","e",")">>)}
DetailedTopics == {NoneValue, Str(<<>>), Str(<<"A","L","L">>), Str(<<"H","M","O">>)}

TopicSelections ==
    [main_category : MainCategories, subcategory : Subcategories,
     specific : SpecificTopics, detailed : DetailedTopics]

\* topic_query = build_topic_query(main_cat, sub_cat, spec, detailed)
BuildTopicQuery ==
    /\ p_fn = "build_topic_query"
    /\ p_out = <<>>
    /\ p_out' = <<build_topic_query(p_input.main_category, p_input.subcategory,
                                    p_input.specific, p_input.detailed)>>
    /\ UNCHANGED <<orch_vars, call_vars, p_fn, p_input>>

(***************************************************************************)
(* get_download_filename applied on its own, to every title of at most     *)
(* MaxPieces pieces drawn from TitlePieces.                                *)
(***************************************************************************)
MaxPieces == 2

TP_guide == <<"M","e","d","i","c","a","r","e"," ","P","a","r","t"," ","D",":"," ","2","0","2","5"," ","G","u","i","d","e"," ","t","o"," ","U",".","S","."," ","D","r","u","g"," ","C","o","v","e","r","a","g","e">>
TP_path == <<".",".","/","e","t","c","/","p","a","s","s","w","d">>
TP_codes == <<"I","C","D","-","1","0","-","C","M","_","c","o","d","e","s">>
TP_spaces == <<"O","p","e","n"," "," ","E","n","r","o","l","l","m","e","n","t","\t","2","0","2","5","\n">>
TP_dash == <<"D","i","a","g","n","o","s","i","s"," ">> \o <<EnDash>> \o <<" ","I","C","D">>
TP_blank == <<" ">>

TitlePieces == {TP_guide, TP_path, TP_codes, TP_spaces, TP_dash, TP_blank}

Titles ==
    {JoinStr(ps, <<>>) : ps \in UNION {[1..k -> TitlePieces] : k \in 0..MaxPieces}}

\* the formats of the download buttons
Formats == {<<"t","x","t">>, <<"d","o","c","x">>}

\* values of datetime.now()
Dates ==
    {[year |-> 2025, month |-> 1, day |-> 5],
     [year |-> 2026, month |-> 11, day |-> 30]}

Downloads == [title : Titles, format : Formats, now : Dates]

HelperFns == {"build_topic_query", "get_download_filename"}

\* a freshly constructed orchestrator, and the arguments of one helper
HelperInit ==
    /\ Construct
    /\ api_key = "None"
    /\ p_fn \in HelperFns
    /\ p_input \in IF p_fn = "build_topic_query" THEN TopicSelections ELSE Downloads
    /\ p_out = <<>>

\* get_download_filename(r.article.title, format)
GetDownloadFilename ==
    /\ p_fn = "get_download_filename"
    /\ p_out = <<>>
    /\ p_out' = <<get_download_filename(p_input.title, p_input.format, p_input.now)>>
    /\ UNCHANGED <<orch_vars, call_vars, p_fn, p_input>>

HelperNext ==
    \/ BuildTopicQuery
    \/ GetDownloadFilename

HelperSpec == HelperInit /\ [][HelperNext]_vars

(***************************************************************************)
(* Properties of generate_article                                          *)
(***************************************************************************)
\* the call took the live pipeline at line 70
LiveCall == log # <<>> /\ log[1] = "enter:_generate_with_openai"

\* the call took the demo pipeline at line 73
DemoCall == log # <<>> /\ log[1] = "enter:_generate_demo"

RequestFailures == {"request:trend", "request:writer", "request:seo"}
ContentFailures == {"content:trend", "content:writer", "content:seo"}

\* what the call's arguments make _generate_demo return
Canned == <<DemoOutput(topic_query, category_path)>>

Occurs(e, s) == \E i \in 1..Len(s) : s[i] = e
Count(e, s) == Cardinality({i \in 1..Len(s) : s[i] = e})
Before(a, b, s) ==
    \A j \in 1..Len(s) : s[j] = b => \E i \in 1..(j - 1) : s[i] = a

\* a response text no field can be parsed from
NoTrendField(text) == parse_trending_topic(text) = TrendDefaults
NoSeoScore(text) ==
    \A i \in 1..Len(Split(text, "\n")) :
        SeoBranch(Split(text, "\n")[i]) = 0 \/ ~SeoFloat(Split(text, "\n")[i]).ok

\* a received response that cannot be parsed: no text, or no field in it
SomeResponseUnparsable ==
    \/ Occurs("response:trend", log) /\ NoTrendField(trend_content.s)
    \/ Occurs("response:seo", log) /\ (seo_content.is_none \/ NoSeoScore(seo_content.s))
    \/ Occurs("response:writer", log) /\ article_content.is_none
    \/ Occurs("content:trend", failures)

\* C1 as stated: a live call in which a request raised or a response could
\* not be parsed returns the canned demo output.
C1_AnyParseFailureYieldsDemo ==
    (pc = "done" /\ LiveCall
        /\ ((\E f \in RequestFailures : Occurs(f, failures)) \/ SomeResponseUnparsable))
    => result = Canned

\* C1 (amended): in a live call in which a request raised, or handling a
\* response raised (a response without text), the output returned is the
\* canned demo output and never a partly live record, and the call returns
\* unless the progress callback raises during the fallback; a live call in
\* which nothing raised returns a live record, also when no field could be
\* parsed from a response text.
C1_LiveFailureYieldsDemo ==
    /\ (LiveCall /\ failures # <<>> /\ failures[1] \in RequestFailures \cup ContentFailures)
       => /\ pc = "done" => result = Canned
          /\ pc = "propagated" => Count("callback", failures) >= 2
          /\ result # <<>> => pc = "done"
    /\ (LiveCall /\ failures = <<>> /\ pc = "done")
       => result # <<>> /\ result # Canned

C1_Witness ==
    /\ pc = "done" /\ LiveCall
    /\ failures # <<>> /\ failures[1] \in RequestFailures \cup ContentFailures
    /\ result = Canned

\* C2: generate_article never propagates an exception: whatever raised in the
\* call (a request, a parser, the progress callback), the call ends by
\* returning the canned demo output.
C2_NeverPropagates ==
    /\ pc # "propagated"
    /\ (pc = "done" /\ failures # <<>>) => result = Canned

\* C3: no retry: a call issues each of the three requests at most once, at
\* most three in all, and none after a failure.
C3_NoRetry ==
    /\ \A k \in {"trend", "writer", "seo"} : Count(k, requests) <= 1
    /\ Len(requests) <= 3
    /\ failures # <<>> =>
          \A j \in 1..Len(log) :
              log[j] \in {"request:trend", "request:writer", "request:seo"}
              => \A i \in 1..(j - 1) : log[i] \notin {"except:197", "except:74"}
    /\ failures # <<>> => outstanding = {}

C3_Witness ==
    /\ pc = "done" /\ LiveCall
    /\ failures = <<"request:writer">>
    /\ requests = <<"trend", "writer">>

\* the percentages the callback received
Pcts == [i \in 1..Len(progress) |-> progress[i].pct]

\* C4: in a live call the roles run in the order trend discovery, writing,
\* SEO validation, consolidation: each request goes out only after the
\* response before it has been received (and the trend response parsed), at
\* most one request is in flight, and when nothing fails the callback
\* receives exactly 15, 40, 70, 90, 100.
C4_SequentialRoles ==
    /\ Before("parse:trend", "request:writer", log)
    /\ Before("request:trend", "response:trend", log)
    /\ Before("response:writer", "request:seo", log)
    /\ Before("response:seo", "consolidate", log)
    /\ Cardinality(outstanding) <= 1
    /\ (pc = "done" /\ LiveCall /\ failures = <<>>)
       => /\ log = <<"enter:_generate_with_openai",
                     "request:trend", "response:trend", "parse:trend",
                     "request:writer", "response:writer",
                     "request:seo", "response:seo",
                     "consolidate", "return:live">>
          /\ progress_callback # "None" => Pcts = <<15, 40, 70, 90, 100>>

C4_Witness ==
    /\ pc = "done" /\ LiveCall /\ failures = <<>>
    /\ progress_callback = "callable"
    /\ Len(requests) = 3

\* C5 as stated: a call takes the live pipeline exactly when the orchestrator
\* was built with an API key and its client was initialised; otherwise it
\* issues no request and returns the demo output.
C5_LiveIffBuiltWithClient ==
    /\ ~AtRest => (LiveCall <=> autogen_available)
    /\ DemoCall => requests = <<>>
    /\ (pc = "done" /\ DemoCall) => result = Canned

\* C5 (amended): a call takes the live pipeline exactly when the orchestrator
\* was built with an API key, its client was initialised and close() has not
\* been called; otherwise it issues no request and any output it returns is
\* the demo output.
C5_LiveIffClientPresent ==
    /\ ~AtRest => (LiveCall <=> (autogen_available /\ ~closed))
    /\ DemoCall => requests = <<>> /\ outstanding = {}
    /\ (pc = "done" /\ DemoCall) => result = Canned

C5_Witness ==
    /\ pc = "done" /\ DemoCall
    /\ autogen_available /\ closed
    /\ result = Canned

(***************************************************************************)
(* Properties of the parsers                                               *)
(***************************************************************************)
Parsed(fn) == p_fn = fn /\ p_out # <<>>

\* the lines of the response handed to the parser
InputLines == Split(p_input, "\n")

\* the last line that starts with the prefix once stripped, or 0
LastWith(prefix) ==
    LET hit == {i \in 1..Len(InputLines) : StartsWith(Strip(InputLines[i]), prefix)}
    IN  IF hit = {} THEN 0 ELSE CHOOSE i \in hit : \A j \in hit : j <= i

TrendPrefix ==
    [title |-> P_TOPIC_TITLE, keywords |-> P_PRIMARY_KEYWORDS,
     trending_reason |-> P_TRENDING_REASON, source |-> P_SOURCE_REFERENCES,
     relevance_score |-> P_RELEVANCE_SCORE, description |-> P_BRIEF_DESCRIPTION]

\* the text a RELEVANCE SCORE line gives as its value: after the prefix, up
\* to the first '/'
ScoreText(line) ==
    LET rest == Drop(Strip(line), Len(P_RELEVANCE_SCORE))
        cut == {i \in 1..Len(rest) : rest[i] = "/"}
    IN  IF cut = {} THEN rest
        ELSE SubSeq(rest, 1, (CHOOSE i \in cut : \A j \in cut : i <= j) - 1)

C7_SeoContentDefaults ==
    Parsed("_parse_seo_content") =>
        \* for the lines of the response: the category each line matches
        \* (0: none), whether its number is parsable, and the scores after
        \* the first k lines
        \A lines \in {InputLines} :
        \A branch \in {[k \in 1..Len(lines) |-> SeoBranch(lines[k])]} :
        \A parsable \in {[k \in 1..Len(lines) |-> SeoFloat(lines[k]).ok]} :
        \A after \in {[k \in 0..Len(lines) |->
                          SeoFold(SeoDefaults, SubSeq(lines, 1, k))]} :
            /\ \A i \in 1..6 :
                  (\A k \in 1..Len(lines) : ~(branch[k] = i /\ parsable[k]))
                  => p_out[1][SeoCategories[i]] =
                        Fin(<<16, 13, 13, 12, 13, 8>>[i], 1)
            /\ \A k \in 1..Len(lines) :
                  (branch[k] # 0 /\ ~parsable[k]) => after[k] = after[k - 1]
            /\ \A c \in DOMAIN SeoDefaults : p_out[1][c] = after[Len(lines)][c]
            /\ (\A k \in 1..Len(lines) : ~(branch[k] # 0 /\ parsable[k]))
               => p_out[1].overall_score = Fin(75, 1) /\ p_out[1].pass_status = TRUE

C7_Witness ==
    /\ Parsed("_parse_seo_content")
    /\ p_input = Join(<<SL_keyword, SL_keyword_word>>, "\n")
    /\ p_out[1].keyword_score = Fin(17, 1)
    /\ p_out[1].heading_score = Fin(13, 1)

HasLine(l) == \E i \in 1..Len(InputLines) : InputLines[i] = l
HasVerdictLine == \E i \in 1..Len(InputLines) : StartsWith(Strip(InputLines[i]), P_PASS_STATUS)

\* C8: parse_seo_validation reports the examiner's verdict: pass_status is
\* true for a response with the line 'PASS_STATUS: PASS', false for one with
\* the line 'PASS_STATUS: FAIL', and false with no PASS_STATUS line.
C8_VerdictReported ==
    Parsed("parse_seo_validation") =>
        /\ (HasLine(SL_pass) /\ ~HasLine(SL_fail)) => p_out[1].pass_status = TRUE
        /\ (HasLine(SL_fail) /\ ~HasLine(SL_pass)) => p_out[1].pass_status = FALSE
        /\ ~HasVerdictLine => p_out[1].pass_status = FALSE

\* C9: every category score _parse_seo_content returns is at most the
\* category's maximum: 20, 15, 15, 15, 15, 10.
C9_ScoresWithinMaximum ==
    Parsed("_parse_seo_content") =>
        \A i \in 1..6 :
            FLeq(p_out[1][SeoCategories[i]], Fin(<<20, 15, 15, 15, 15, 10>>[i], 1))

\* the 'Overall score' and 'PASS_STATUS' lines of the examiner's format
W_overall_score == <<"o","v","e","r","a","l","l"," ","s","c","o","r","e",":">>
W_overall_field == <<"o","v","e","r","a","l","l","_","s","c","o","r","e",":">>

IsVerdictLine(line) ==
    \/ StartsWith(Lower(Strip(line)), W_overall_score)
    \/ StartsWith(Lower(Strip(line)), W_overall_field)
    \/ StartsWith(Strip(line), P_PASS_STATUS)

RECURSIVE WithoutVerdictLines(_)
WithoutVerdictLines(lines) ==
    IF lines = <<>> THEN <<>>
    ELSE (IF IsVerdictLine(Head(lines)) THEN <<>> ELSE <<Head(lines)>>)
         \o WithoutVerdictLines(Tail(lines))

\* C10: the SEOValidation of _parse_seo_content has overall_score equal to
\* the sum of its six category scores and pass_status true exactly when
\* overall_score >= 70; the examiner's 'Overall score' and 'PASS_STATUS'
\* lines change neither.
C10_OverallIsSum ==
    Parsed("_parse_seo_content") =>
        LET v == p_out[1]
            w == _parse_seo_content(Join(WithoutVerdictLines(InputLines), "\n"))
        IN  /\ v.overall_score =
                   FAdd(FAdd(FAdd(FAdd(FAdd(v.keyword_score, v.heading_score),
                                       v.length_score), v.readability_score),
                             v.relevance_score), v.intent_score)
            /\ v.pass_status <=> FGeq(v.overall_score, Fin(70, 1))
            /\ v.overall_score = w.overall_score
            /\ v.pass_status = w.pass_status

C10_Witness ==
    /\ Parsed("_parse_seo_content")
    /\ p_input = Join(<<SL_relevance, SL_pass>>, "\n")
    /\ p_out[1].overall_score = Fin(64, 1)
    /\ p_out[1].pass_status = FALSE

(***************************************************************************)
(* Properties of the message history, the progress events and the meta     *)
(* description                                                             *)
(***************************************************************************)
\* the call returned the live record: the three agents answered and their
\* answers were consolidated
AgentsRan == pc = "done" /\ LiveCall /\ failures = <<>> /\ Len(requests) = 3

\* C11: once a generate_article call has completed, get_message_history
\* returns the messages of that generation: at least one AgentMessage when the
\* agents ran, and nothing of an earlier generation (the list was emptied when
\* the call began, so it holds no more than the agents of this call sent:
\* at most one message for each response received).
C11_HistoryOfLastGeneration ==
    /\ AgentsRan => Len(get_message_history) >= 1
    /\ pc = "done" =>
          Len(get_message_history)
              <= Cardinality({i \in 1..Len(log) :
                     log[i] \in {"response:trend", "response:writer", "response:seo"}})

(***************************************************************************)
(* Properties of build_topic_query and get_download_filename               *)
(***************************************************************************)
\* ' - ' + v when the argument v is a part of the query, '' when it is not
QueryPart(v, skip_all) ==
    IF v.is_none \/ v.s = <<>> \/ (skip_all /\ v.s = <<"A","L","L">>)
    THEN <<>> ELSE <<" ","-"," ">> \o v.s

\* C12: build_topic_query returns the parts joined by ' - ' in the order
\* main_category, subcategory, specific, detailed: main_category is always the
\* first part, subcategory and specific are parts only when non-empty and
\* different from 'ALL', detailed is a part whenever it is non-empty; in
\* particular build_topic_query(m, 'ALL', None) is m.
C12_TopicQueryParts ==
    Parsed("build_topic_query") =>
        /\ p_out[1] = p_input.main_category
                      \o QueryPart(p_input.subcategory, TRUE)
                      \o QueryPart(p_input.specific, TRUE)
                      \o QueryPart(p_input.detailed, FALSE)
        /\ StartsWith(p_out[1], p_input.main_category)
        /\ (/\ p_input.subcategory = Str(<<"A","L","L">>)
            /\ p_input.specific = NoneValue
            /\ p_input.detailed = NoneValue)
           => p_out[1] = p_input.main_category

\* a subcategory is kept, a specific topic 'ALL' is skipped and a detailed
\* topic 'ALL' is kept
C12_Witness ==
    /\ Parsed("build_topic_query")
    /\ p_input = [main_category |-> <<"G","O","V","E","R","N","M","E","N","T"," ","P","L","A","N","S">>, subcategory |-> Str(<<"M","e","d","i","c","a","r","e">>),
                  specific |-> Str(<<"A","L","L">>), detailed |-> Str(<<"A","L","L">>)]
    /\ p_out[1] = <<"G","O","V","E","R","N","M","E","N","T"," ","P","L","A","N","S"," ","-"," ","M","e","d","i","c","a","r","e"," ","-"," ","A","L","L">>

\* the part T of a file name: what stands between 'HealthPulse_' and
\* '_YYYYMMDD.format'
FilenamePrefix == <<"H","e","a","l","t","h","P","u","l","s","e","_">>
FilenameSuffix(format) == 10 + Len(format)
FilenameTitle(name, format) ==
    SubSeq(name, Len(FilenamePrefix) + 1, Len(name) - FilenameSuffix(format))

\* s is the beginning of t
IsPrefix(s, t) == Len(s) <= Len(t) /\ SubSeq(t, 1, Len(s)) = s

\* C13: get_download_filename(title, format) is 'HealthPulse_' + T + '_' +
\* YYYYMMDD + '.' + format, where YYYYMMDD is the current date and T comes from
\* the title (without its underscores, T is the beginning of the title's
\* letters, digits and hyphens), has at most 50 characters, and holds only
\* word characters, underscores and hyphens: no whitespace, no path separator,
\* no dot, for every title.
C13_DownloadFilename ==
    Parsed("get_download_filename") =>
        \A name \in {p_out[1]} :
        \A T \in {FilenameTitle(name, p_input.format)} :
            /\ Len(name) >= Len(FilenamePrefix) + FilenameSuffix(p_input.format)
            /\ name = FilenamePrefix \o T \o <<"_">>
                      \o DigitsOf(p_input.now.year * 10000 + p_input.now.month * 100
                                  + p_input.now.day)
                      \o <<".">> \o p_input.format
            /\ Len(T) <= 50
            /\ \A i \in 1..Len(T) :
                  /\ IsWordChar(T[i]) \/ T[i] = "-"
                  /\ ~IsSpace(T[i]) /\ T[i] \notin {"/", "\\", "."}
            /\ IsPrefix(SelectSeq(T, LAMBDA c : c # "_"),
                        SelectSeq(p_input.title,
                                  LAMBDA c : (IsWordChar(c) /\ c # "_") \/ c = "-"))

\* a title of more than 50 characters with a dot, a path separator and
\* whitespace in it, cut to 50
C13_Witness ==
    /\ Parsed("get_download_filename")
    /\ Len(p_input.title) > 50
    /\ \E i \in 1..Len(p_input.title) : p_input.title[i] = "."
    /\ \E i \in 1..Len(p_input.title) : p_input.title[i] = "/"
    /\ \E i \in 1..Len(p_input.title) : IsSpace(p_input.title[i])
    /\ Len(FilenameTitle(p_out[1], p_input.format)) = 50

\* the callback was given and never raised in this call
CallbackReturned ==
    progress_callback # "None" /\ ~Occurs("callback", failures)

\* C14: within one generate_article call the percentages the callback
\* receives never decrease, also when the live pipeline fails part-way and the
\* call falls back to the demo pipeline (stated for the calls whose callback
\* returns every time, so that only the pipeline's own failures count).
C14_PercentagesNeverDecrease ==
    CallbackReturned =>
        \A i \in 1..(Len(Pcts) - 1) : Pcts[i] <= Pcts[i + 1]

Complete == [msg |-> "Complete!", pct |-> 100]

\* C15: a generate_article call that returns, with a progress_callback that
\* does not raise, has reported ('Complete!', 100) exactly once and as its
\* last event, from the live pipeline, from the demo pipeline and from the
\* fallback after a live failure alike; the demo pipeline has run at most
\* once.
C15_CompleteOnceAndLast ==
    (pc = "done" /\ CallbackReturned) =>
        /\ Count(Complete, progress) = 1
        /\ progress[Len(progress)] = Complete
        /\ \A i \in 1..(Len(progress) - 1) : progress[i].pct < 100
        /\ Count("enter:_generate_demo", log) <= 1

\* the fallback after the last live step that can fail: the SEO response has
\* no content, 90 had been reported
C15_Witness ==
    /\ pc = "done" /\ LiveCall /\ CallbackReturned
    /\ failures = <<"content:seo">>
    /\ Occurs("except:197", log)
    /\ Len(progress) = 9

\* C16: the meta_description of every SEOArticle generate_article returns
\* (extracted from the writer's response, defaulted by _parse_article_content,
\* or written by the demo pipeline) has at most 160 characters, for every
\* topic_query build_topic_query makes from the topic hierarchy.
C16_MetaDescriptionLength ==
    pc = "done" => Len(result[1].article.meta_description) <= MetaMaxLen

====
